---- MODULE Spec2Model ----
(***************************************************************************)
(* Model of FeatureImportance.feature_importance                           *)
(* (pyinterpret/core/global_interpretation/feature_importance.py, 55-74).  *)
(*                                                                         *)
(* Numbers.  Predictions and table cells are integers.  A float produced   *)
(* by numpy/pandas is a rational <<num, den>> in lowest terms; <<0, 0>>    *)
(* is NaN (the value of 0.0/0.0) and <<1, 0>> is +inf.  The only           *)
(* irrational step, the square root inside np.std, is taken in fixed       *)
(* point with Scale fractional steps: sqrt(r) is ISqrt(r*Scale^2)/Scale.   *)
(* It is 0 exactly when r is 0 and it is monotone in r.                    *)
(*                                                                         *)
(* Objects.  DataFrames live in `frames`, a heap indexed by object id, so  *)
(* that the difference between a copy and an alias is expressible.         *)
(***************************************************************************)
EXTENDS Integers, Sequences, FiniteSets, TLC

(* ------------------------------ bounds --------------------------------- *)
MaxRows == 2          \* datasets have 0..MaxRows rows
MaxVal == 1           \* cells hold values 0..MaxVal
Scale == 4            \* fixed-point resolution of the square root

Errors == {"ModelInvocationError", "ValueError"}

(* ------------------------------ helpers -------------------------------- *)
Range(s) == {s[i] : i \in DOMAIN s}

RECURSIVE SumSeq(_)
SumSeq(s) == IF s = <<>> THEN 0 ELSE Head(s) + SumSeq(Tail(s))

RECURSIVE GCD(_, _)
GCD(a, b) == IF b = 0 THEN a ELSE GCD(b, a % b)

Abs(x) == IF x < 0 THEN -x ELSE x

(* floats as rationals *)
NaN == <<0, 0>>
IsNaN(q) == q[2] = 0 /\ q[1] = 0
IsFinite(q) == q[2] # 0
Rat(a, b) ==
    IF b = 0 THEN <<(IF a > 0 THEN 1 ELSE IF a < 0 THEN -1 ELSE 0), 0>>
    ELSE LET g == GCD(Abs(a), Abs(b))
             s == IF b < 0 THEN -1 ELSE 1
         IN  <<s * (a \div g), s * (b \div g)>>
Zero == <<0, 1>>
RAdd(p, q) ==
    IF IsNaN(p) \/ IsNaN(q) THEN NaN
    ELSE IF p[2] = 0 /\ q[2] = 0 THEN (IF p[1] = q[1] THEN p ELSE NaN)
    ELSE IF p[2] = 0 THEN p
    ELSE IF q[2] = 0 THEN q
    ELSE Rat(p[1] * q[2] + q[1] * p[2], p[2] * q[2])
RDiv(p, q) ==
    IF IsNaN(p) \/ IsNaN(q) THEN NaN
    ELSE IF p[2] = 0 /\ q[2] = 0 THEN NaN
    ELSE IF q[2] = 0 THEN Zero
    ELSE IF p[2] = 0 THEN (IF q[1] < 0 THEN <<-p[1], 0>> ELSE p)
    ELSE Rat(p[1] * q[2], p[2] * q[1])
\* p == q as floats compare: NaN equals nothing
REq(p, q) == ~IsNaN(p) /\ p = q
\* p < q as floats compare: false whenever a NaN is involved
RLess(p, q) ==
    /\ ~IsNaN(p) /\ ~IsNaN(q)
    /\ IF p[2] = 0 /\ q[2] = 0 THEN p[1] < q[1]
       ELSE IF p[2] = 0 THEN p[1] < 0
       ELSE IF q[2] = 0 THEN q[1] > 0
       ELSE p[1] * q[2] < q[1] * p[2]

RECURSIVE ISqrtFrom(_, _)
ISqrtFrom(x, r) == IF (r + 1) * (r + 1) > x THEN r ELSE ISqrtFrom(x, r + 1)
ISqrt(x) == ISqrtFrom(x, 0)

(* ------------------------------ dataset -------------------------------- *)
\* data_set.feature_ids: the column names, in column order
feature_ids == <<"a", "b">>
Features == Range(feature_ids)

NRows(t) == Len(t[feature_ids[1]])

\* The tables of n rows.  predict works row by row and np.std does not
\* depend on the order of the rows, so one table stands for all those that
\* hold the same rows in another order: the one whose rows are in
\* lexicographic order.
RECURSIVE RowKey(_, _, _)
RowKey(t, i, c) ==
    IF c > Len(feature_ids) THEN 0
    ELSE t[feature_ids[c]][i] + (MaxVal + 1) * RowKey(t, i, c + 1)
Tables(n) ==
    {t \in [Features -> [1..n -> 0..MaxVal]] :
        \A i \in 1..(n - 1) : RowKey(t, i, 1) <= RowKey(t, i + 1, 1)}

DataObj == "data"     \* object id of self.data_set.data
CopyObj == "copy"     \* object id of the DataFrame made by .copy()
NoObj == "unbound"    \* X_mutable before line 63

\* DataSet.generate_column_sample: n_samples values, each one of the values
\* observed in the column (np.random.choice with replacement).
GenerateColumnSample(t, feature_id, n_samples, method) ==
    IF method = "random-choice"
    THEN [1..n_samples -> Range(t[feature_id])]
    ELSE {}

(* ------------------------------- model --------------------------------- *)
\* A model is [k, uses]: output dimension j of row i is j times the sum of
\* the cells of row i in the columns of `uses`.  uses = {} is a constant model.
\* k = 1 is a regression, k = 2 a two-class probability output.
Models == [k : {1, 2}, uses : SUBSET Features]

RECURSIVE SumOver(_, _, _)
SumOver(t, S, i) ==
    IF S = {} THEN 0
    ELSE LET f == CHOOSE g \in S : TRUE
         IN  t[f][i] + SumOver(t, S \ {f}, i)

\* Model.predict: an array of shape (n, k), stored by output dimension so
\* that k survives n = 0: Predict(m, t)[j][i] is output j of row i.
Predict(m, t) == [j \in 1..m.k |-> [i \in 1..NRows(t) |-> j * SumOver(t, m.uses, i)]]

Shape0(p) == Len(p[1])               \* ndarray.shape[0]

(* ------------------------- numpy / pandas steps ------------------------ *)
\* importances[feature_id] = importance
SetItem(d, key, v) == [x \in DOMAIN d \cup {key} |-> IF x = key THEN v ELSE d[x]]

\* X_mutable = data (no copy): both names denote one object
DataFrameCopyAlias(h, obj) == [frames |-> h, ref |-> obj]

\* the copy hoisted out of the loop: one working table for all features
DataFrameCopyOnce(h, obj) ==
    IF CopyObj \in DOMAIN h THEN [frames |-> h, ref |-> CopyObj]
    ELSE [frames |-> SetItem(h, CopyObj, h[obj]), ref |-> CopyObj]

\* DataFrame.copy(): a new object holding the same cells; the object the
\* previous iteration made is unreachable once X_mutable is rebound.
DataFrameCopy(h, obj) == [frames |-> SetItem(h, CopyObj, h[obj]), ref |-> CopyObj]

\* X_mutable[feature_id] = samples
SetColumn(t, feature_id, samples) == [t EXCEPT ![feature_id] = samples]

\* the baseline left out of the difference
ChangesNoBaseline(new, orig) == new

\* new_predictions - original_predictions
ChangesInPredictions(new, orig) ==
    [j \in DOMAIN new |-> [i \in DOMAIN new[j] |-> new[j][i] - orig[j][i]]]

\* np.std of one column of the (n, k) array: sqrt(mean((d - mean(d))^2))
\*   = sqrt(n*sum(d^2) - sum(d)^2) / n ; 0/0 = NaN for n = 0.
Std(col) ==
    LET n == Len(col)
        s1 == SumSeq(col)
        s2 == SumSeq([i \in DOMAIN col |-> col[i] * col[i]])
    IN  Rat(ISqrt((n * s2 - s1 * s1) * Scale * Scale), n * Scale)

RECURSIVE RSumSeq(_)
RSumSeq(s) == IF s = <<>> THEN Zero ELSE RAdd(Head(s), RSumSeq(Tail(s)))

\* np.mean(np.std(changes, axis=0))
Importance(changes) ==
    RDiv(RSumSeq([j \in DOMAIN changes |-> Std(changes[j])]), <<Len(changes), 1>>)

Perms(S) == {p \in [1..Cardinality(S) -> S] : \A i, j \in DOMAIN p : i # j => p[i] # p[j]}

\* the Series left in some order that is not sorted by value
SortValuesUnsorted(d) ==
    {[i \in DOMAIN p |-> [key |-> p[i], value |-> d[p[i]]]] : p \in Perms(DOMAIN d)}

\* pd.Series(importances).sort_values(): ascending, NaN last.  The default
\* kind is 'quicksort', which is not stable, and the dict has no order of its
\* own, so the order among equal values is any order.
Ascending(vals) ==
    \A i, j \in DOMAIN vals :
        i < j => /\ ~RLess(vals[j], vals[i])
                 /\ (IsNaN(vals[i]) => IsNaN(vals[j]))
SortValues(d) ==
    {[i \in DOMAIN p |-> [key |-> p[i], value |-> d[p[i]]]] :
        p \in {q \in Perms(DOMAIN d) : Ascending([i \in DOMAIN q |-> d[q[i]]])}}

\* Series.sum(): NaN entries are skipped
SeriesSum(s) ==
    RSumSeq([i \in DOMAIN s |-> IF IsNaN(s[i].value) THEN Zero ELSE s[i].value])

\* division by the largest score instead of the sum
NormalizeByMax(s) ==
    [i \in DOMAIN s |-> [key |-> s[i].key, value |-> RDiv(s[i].value, s[Len(s)].value)]]

\* entries without a defined score dropped from the result
NormalizeDropNaN(s) ==
    SelectSeq([i \in DOMAIN s |-> [key |-> s[i].key, value |-> RDiv(s[i].value, SeriesSum(s))]],
              LAMBDA e : ~IsNaN(e.value))

\* importances / importances.sum()
Normalize(s) ==
    [i \in DOMAIN s |-> [key |-> s[i].key, value |-> RDiv(s[i].value, SeriesSum(s))]]

\* the failing call made again
PropagateRetry(at, e) == [pc |-> at, error |-> "none"]

\* an exception raised by predict is not caught at lines 56 and 67
Propagate(at, e) == [pc |-> "failed", error |-> e]

(* ------------------------------- state --------------------------------- *)
VARIABLES
    frames,               \* heap of DataFrames: frames[DataObj] is data_set.data
    modelinstance,        \* the model under explanation
    pc,                   \* position in feature_importance
    error,                \* exception feature_importance ended with, or "none"
    original_predictions, \* line 56
    n,                    \* line 58
    idx,                  \* position of the for loop in feature_ids
    X_mutable,            \* object id bound to X_mutable (line 63)
    samples,              \* line 64
    new_predictions,      \* line 67
    importances,          \* the dict of lines 55 and 70
    sorted_importances,   \* the Series of line 72
    result,               \* the Series of line 73, returned at line 74
    predict_calls         \* history: every call of modelinstance.predict

vars == <<frames, modelinstance, pc, error, original_predictions, n, idx,
          X_mutable, samples, new_predictions, importances,
          sorted_importances, result, predict_calls>>

feature_id == feature_ids[idx]

Init ==
    /\ \E rows \in 0..MaxRows : \E t \in Tables(rows) :
           frames = [o \in {DataObj} |-> t]
    /\ modelinstance \in Models
    /\ pc = "baseline"
    /\ error = "none"
    /\ original_predictions = <<>>
    /\ n = 0
    /\ idx = 1
    /\ X_mutable = NoObj
    /\ samples = <<>>
    /\ new_predictions = <<>>
    /\ importances = <<>>
    /\ sorted_importances = <<>>
    /\ result = <<>>
    /\ predict_calls = <<>>

(* ------------------------------ actions -------------------------------- *)
\* When feature_importance returns or raises, its frame is gone: the locals
\* are unbound and the working copy is unreachable.  importances and
\* sorted_importances are kept as history of the finished call.
FrameDiscarded ==
    /\ frames' = [o \in {DataObj} |-> frames[DataObj]]
    /\ X_mutable' = NoObj
    /\ samples' = <<>>
    /\ new_predictions' = <<>>
    /\ original_predictions' = <<>>
    /\ n' = 0

PredictRaises(tag) ==
    \E e \in Errors :
        /\ predict_calls' = Append(predict_calls, [for |-> tag, raised |-> e])
        /\ pc' = Propagate(pc, e).pc
        /\ error' = Propagate(pc, e).error
        /\ IF pc' = "failed"
           THEN FrameDiscarded
           ELSE UNCHANGED <<frames, X_mutable, samples, new_predictions,
                            original_predictions, n>>

\* lines 55-58: the baseline call returns
Baseline ==
    /\ pc = "baseline"
    /\ predict_calls' = Append(predict_calls, [for |-> "baseline", raised |-> "none"])
    /\ original_predictions' = Predict(modelinstance, frames[DataObj])
    /\ n' = Shape0(original_predictions')
    /\ importances' = <<>>
    /\ pc' = IF idx <= Len(feature_ids) THEN "perturb" ELSE "sort"
    /\ UNCHANGED <<frames, modelinstance, error, idx, X_mutable, samples,
                   new_predictions, sorted_importances, result>>

\* line 56: the baseline call raises
BaselineRaises ==
    /\ pc = "baseline"
    /\ PredictRaises("baseline")
    /\ UNCHANGED <<modelinstance, idx, importances, sorted_importances, result>>

\* lines 63-66: copy the table, draw the samples, overwrite the column
\* (feature_perturbations of line 65 is computed and never used)
Perturb ==
    /\ pc = "perturb"
    /\ \E s \in GenerateColumnSample(frames[DataObj], feature_id, n, "random-choice") :
           LET c == DataFrameCopy(frames, DataObj)
           IN  /\ X_mutable' = c.ref
               /\ samples' = s
               /\ frames' = [c.frames EXCEPT ![c.ref] = SetColumn(@, feature_id, s)]
    /\ pc' = "predict"
    /\ UNCHANGED <<modelinstance, error, original_predictions, n, idx,
                   new_predictions, importances, sorted_importances, result,
                   predict_calls>>

\* lines 67-70 and the loop's advance: the call for feature_id returns
PredictReduce ==
    /\ pc = "predict"
    /\ predict_calls' = Append(predict_calls, [for |-> feature_id, raised |-> "none"])
    /\ new_predictions' = Predict(modelinstance, frames[X_mutable])
    /\ importances' = SetItem(importances, feature_id,
           Importance(ChangesInPredictions(new_predictions', original_predictions)))
    /\ idx' = idx + 1
    /\ pc' = IF idx' <= Len(feature_ids) THEN "perturb" ELSE "sort"
    /\ UNCHANGED <<frames, modelinstance, error, original_predictions, n,
                   X_mutable, samples, sorted_importances, result>>

\* line 67: the call for feature_id raises
PredictPerturbedRaises ==
    /\ pc = "predict"
    /\ PredictRaises(feature_id)
    /\ UNCHANGED <<modelinstance, idx, importances, sorted_importances, result>>

\* lines 72-74: sort, normalize, return
SortNormalizeReturn ==
    /\ pc = "sort"
    /\ \E s \in SortValues(importances) :
           /\ sorted_importances' = s
           /\ result' = Normalize(s)
    /\ pc' = "done"
    /\ FrameDiscarded
    /\ UNCHANGED <<modelinstance, error, idx, importances, predict_calls>>

Next ==
    \/ Baseline
    \/ BaselineRaises
    \/ Perturb
    \/ PredictReduce
    \/ PredictPerturbedRaises
    \/ SortNormalizeReturn

Spec == Init /\ [][Next]_vars

TypeOK ==
    /\ pc \in {"baseline", "perturb", "predict", "sort", "done", "failed"}
    /\ error \in Errors \cup {"none"}
    /\ idx \in 1..(Len(feature_ids) + 1)

(* ------------------------------ properties ----------------------------- *)
data == frames[DataObj]
ResultKeys == {result[i].key : i \in DOMAIN result}
Position(f) == CHOOSE i \in DOMAIN feature_ids : feature_ids[i] = f
RawSum == RSumSeq([i \in DOMAIN feature_ids |-> importances[feature_ids[i]]])
AllRawZero == \A f \in Features : f \in DOMAIN importances /\ importances[f] = Zero
SomeRawPositive == \E f \in DOMAIN importances : RLess(Zero, importances[f])
ConstantColumn(f) == NRows(data) >= 1 /\ \A i \in DOMAIN data[f] : data[f][i] = data[f][1]
ExpectedCalls == <<"baseline">> \o feature_ids

\* C1: whenever feature_importance returns, the keys of the result are
\* exactly the feature ids, each of them once.
C1_KeysAreFeatureIds ==
    pc = "done" => /\ ResultKeys = Features
                   /\ Len(result) = Len(feature_ids)
C1_Witness ==
    pc = "done" /\ NRows(data) >= 1 /\ ResultKeys = Features /\ AllRawZero

\* C2: when every raw importance is zero, feature_importance does not return
\* undefined (NaN) scores obtained by dividing by the zero sum.
C2_NoNaNOnZeroSum ==
    (pc = "done" /\ AllRawZero) => \A i \in DOMAIN result : ~IsNaN(result[i].value)

\* C3: when some feature has nonzero raw importance, every returned score is
\* the raw score divided by the sum of the raw scores, is non-negative, and
\* the scores sum to 1.
C3_NormalizedDistribution ==
    (pc = "done" /\ SomeRawPositive) =>
        /\ \A i \in DOMAIN result :
               /\ result[i].value = RDiv(importances[result[i].key], RawSum)
               /\ ~RLess(result[i].value, Zero)
               /\ IsFinite(result[i].value)
        /\ RSumSeq([i \in DOMAIN result |-> result[i].value]) = <<1, 1>>
C3_Witness ==
    /\ pc = "done"
    /\ \A f \in Features : RLess(Zero, importances[f])
    /\ \E f, g \in Features : RLess(importances[f], importances[g])

\* C4: feature_importance on a dataset with zero rows does not return an
\* importance result.
C4_EmptyDatasetRejected ==
    NRows(data) = 0 => pc # "done"

\* C5: no step of feature_importance changes a cell of data_set.data.
C5_DatasetUnchanged ==
    [][frames'[DataObj] = frames[DataObj]]_vars
C5_Witness ==
    /\ pc = "predict"
    /\ X_mutable = CopyObj
    /\ frames[CopyObj] # frames[DataObj]

\* C6: a failure of predict ends feature_importance with that failure, with
\* no result, no second call for that table and no call for a later feature;
\* a run that returns has called predict once for the baseline and then once
\* per feature id, in order.
C6_PredictFailurePropagates ==
    /\ Len(predict_calls) <= Len(ExpectedCalls)
    /\ \A i \in DOMAIN predict_calls :
           /\ predict_calls[i].for = ExpectedCalls[i]
           /\ (i < Len(predict_calls) => predict_calls[i].raised = "none")
    /\ (error # "none") <=> (pc = "failed")
    /\ pc = "failed" <=>
           (predict_calls # <<>> /\ predict_calls[Len(predict_calls)].raised # "none")
    /\ pc = "failed" =>
           /\ error = predict_calls[Len(predict_calls)].raised
           /\ result = <<>>
    /\ pc = "done" =>
           /\ Len(predict_calls) = Len(ExpectedCalls)
           /\ \A i \in DOMAIN predict_calls : predict_calls[i].raised = "none"
C6_Witness ==
    /\ pc = "failed"
    /\ Len(predict_calls) = 2
    /\ error = "ValueError"

C8_PerturbedTable ==
    pc = "predict" =>
        LET t == frames[X_mutable]
        IN  /\ DOMAIN t = Features
            /\ \A g \in Features : Len(t[g]) = NRows(data)
            /\ \A g \in Features \ {feature_id} : t[g] = data[g]
            /\ t[feature_id] = samples
            /\ Len(samples) = n
            /\ \A r \in DOMAIN samples : samples[r] \in Range(data[feature_id])
C8_Witness ==
    /\ pc = "predict"
    /\ idx = 2
    /\ RLess(Zero, importances[feature_ids[1]])
    /\ samples # data[feature_id]

\* C9 (as stated): the result is in ascending order of raw score and features
\* of equal raw score keep their order of dataset.feature_ids.
C9_StableAscending ==
    pc = "done" =>
        \A i, j \in DOMAIN result : i < j =>
            /\ ~RLess(importances[result[j].key], importances[result[i].key])
            /\ (REq(importances[result[i].key], importances[result[j].key])
                    => Position(result[i].key) < Position(result[j].key))

\* C9 (amended): the result is in ascending order of raw score, in the order
\* sort_values produced; normalization keeps that order.
C9_Ascending ==
    pc = "done" =>
        /\ \A i, j \in DOMAIN result : i < j =>
               ~RLess(importances[result[j].key], importances[result[i].key])
        /\ [i \in DOMAIN result |-> result[i].key]
               = [i \in DOMAIN sorted_importances |-> sorted_importances[i].key]
C9_Witness ==
    /\ pc = "done"
    /\ Len(result) >= 2
    /\ RLess(Zero, importances[result[1].key])
    /\ RLess(importances[result[1].key], importances[result[2].key])
    /\ Position(result[2].key) < Position(result[1].key)

\* C10: the raw importance of f is a function of the original dataset, the
\* baseline predictions and the samples drawn for f alone, and each slot of
\* the raw-importance mapping is written once: a step leaves every slot
\* already written as it is, and a slot it adds belongs to the feature of
\* the current iteration and holds the value computed from the original
\* table with only that feature's column replaced by its samples.
RawOf(f, drawn) ==
    Importance(ChangesInPredictions(
        Predict(modelinstance, SetColumn(data, f, drawn)),
        Predict(modelinstance, data)))
====
